---------------------------- MODULE Spec2Model ----------------------------
(***************************************************************************)
(* Model of riscos/contextmangler.py: the context manglers (reversible     *)
(* transforms between an opaque 32-bit context and an enumeration offset), *)
(* the mangler instance built from an opaque value, and the registry of    *)
(* manglers by name.                                                       *)
(*                                                                         *)
(* Three specifications share the module:                                  *)
(*   SpecPure      the mangle/unmangle functions applied to offsets        *)
(*   Spec          one mangler instance: construction, += , finish, opaque *)
(*   SpecRegistry  the registrations at import and the lookups after them  *)
(*                                                                         *)
(* Python integers are unbounded; TLC's are 32-bit signed.  The sentinel   *)
(* 0xFFFFFFFF and the normalisation constant 1<<32 are therefore modelled  *)
(* WordBits wide (AllOnes = 2^WordBits - 1, Word = 2^WordBits).  WordBits  *)
(* is even, like 32, so that Word has the residue of 2^32 modulo the       *)
(* default multiplier 24, and Word exceeds every default parameter.        *)
(***************************************************************************)
EXTENDS Integers, Sequences, FiniteSets, TLC

VARIABLES
    \* ---- SpecPure
    fself,      \* the object whose mangle/unmangle are applied: cls and tunables
    fo,         \* the offset given to mangle
    fm,         \* mangle(fo), once computed
    fu,         \* unmangle(fm) as [raised, value], once computed
    fmm,        \* mangle(fm), once computed
    fpc,        \* "start" | "mangled" | "unmangled" | "remangled"
    \* ---- Spec (one mangler instance, the object `context` of the test)
    pc,         \* "new" (not constructed) | "live" | "raised" (constructor raised)
    self,       \* the instance's attributes: cls, tunables, offset
    context,    \* the opaque value the constructor was given
    args,       \* the extra positional arguments the constructor was given
    called,     \* scheme functions the last operation invoked, with their argument
    lastOp,     \* "none" | "init" | "iadd" | "finish" | "opaque" | "fresh"
    value,      \* the argument of the last +=
    prev,       \* self.offset before the last operation
    ret,        \* what the last read of .opaque returned
    steps,      \* number of += applied since construction
    byOne,      \* every += so far was += 1, and finish() was never called
    newcontext, \* the fresh instance built from self.opaque: [made, raised, offset]
    \* ---- SpecRegistry
    manglers,   \* the module's dict, in insertion order: <<[key, cls], ...>>
    clsname,    \* the `name` attribute of each class (<<>> for None)
    defined,    \* number of decorated class definitions executed so far
    found,      \* the last find_context_mangler: [asked, name, raised, cls]
    validated,  \* the last ContextManglerName: [asked, name, raised, value]
    listed      \* the last list_context_manglers: [asked, list]

pureVars == <<fself, fo, fm, fu, fmm, fpc>>
instVars == <<pc, self, context, args, called, lastOp, value, prev, ret, steps, byOne, newcontext>>
regVars  == <<manglers, clsname, defined, found, validated, listed>>
vars     == <<pureVars, instVars, regVars>>

-----------------------------------------------------------------------------
(* Bounds of the model *)

\* width of the opaque word (32 in the source)
WordBits == 28
\* offsets 0..MaxOffset-1 are given to the pure functions
MaxOffset == 10000
\* blocks above the reversed bits that are sampled
MaxHigh == 3
\* contexts -MaxContext..MaxContext are given to the constructor
MaxContext == 4
\* number of += applied to one instance
MaxSteps == 7
\* largest value added by one +=
MaxDelta == 2
\* parameters and contexts below 2^SmallBits get an exhaustive preimage search
SmallBits == 5

RECURSIVE Pow2(_)
Pow2(n) == IF n = 0 THEN 1 ELSE 2 * Pow2(n - 1)

Word == Pow2(WordBits)
AllOnes == Word - 1

-----------------------------------------------------------------------------
(* Class attributes: the defaults of the tunables *)

base == 484675
eor == 484675
nbits == 17
limit == 484675
bias == 58720256
multiplier == 24

Schemes == {"Identity", "Biased", "EOR", "Reverse", "Descending", "Multiplier"}

\* The attributes an instance of cls reads before its constructor overrides any
ClassAttrs(cls) ==
    [cls |-> cls, base |-> base, eor |-> eor, nbits |-> nbits, limit |-> limit,
     bias |-> bias, multiplier |-> multiplier, offset |-> 0]

-----------------------------------------------------------------------------
(* Python's integer operators on non-negative operands *)

RECURSIVE BitXor(_, _)
BitXor(a, b) ==
    IF a = 0 THEN b
    ELSE IF b = 0 THEN a
    ELSE (((a % 2) + (b % 2)) % 2) + 2 * BitXor(a \div 2, b \div 2)

RECURSIVE BitOr(_, _)
BitOr(a, b) ==
    IF a = 0 THEN b
    ELSE IF b = 0 THEN a
    ELSE (IF (a % 2) = 1 \/ (b % 2) = 1 THEN 1 ELSE 0) + 2 * BitOr(a \div 2, b \div 2)

\* int(a / b): true division truncated toward zero
IntDiv(a, b) == IF a >= 0 THEN a \div b ELSE -((-a) \div b)

Returned(v) == [raised |-> FALSE, value |-> v]
Raised == [raised |-> TRUE, value |-> 0]

-----------------------------------------------------------------------------
(* The schemes' mangle functions *)

IdentityMangle(s, offset) == offset

BiasedMangle(s, offset) == offset + s.base

EORMangle(s, offset) == 1 + BitXor(offset, s.eor)

\* the loop of ContextManglerReverse.mangle: n iterations left
RECURSIVE ReverseLoop(_, _, _)
ReverseLoop(n, val, offset) ==
    IF n = 0 THEN <<val, offset>>
    ELSE ReverseLoop(n - 1, BitOr(2 * val, (offset % 2)), offset \div 2)

\* mutant: the bits above the reversed ones are dropped
ReverseMangleLowOnly(s, offset) == ReverseLoop(s.nbits, 0, offset)[1]

ReverseMangle(s, offset) ==
    LET r == ReverseLoop(s.nbits, 0, offset)
    IN  BitOr(r[1], r[2] * Pow2(s.nbits))

DescendingMangle(s, offset) ==
    LET low  == offset % s.limit
        high == IntDiv(offset, s.limit) * s.limit
    IN  (s.limit - low) + high + 1

MultiplierMangle(s, offset) == s.bias + offset * s.multiplier

Mangle(s, offset) ==
    CASE s.cls = "Identity"   -> IdentityMangle(s, offset)
      [] s.cls = "Biased"     -> BiasedMangle(s, offset)
      [] s.cls = "EOR"        -> EORMangle(s, offset)
      [] s.cls = "Reverse"    -> ReverseMangle(s, offset)
      [] s.cls = "Descending" -> DescendingMangle(s, offset)
      [] s.cls = "Multiplier" -> MultiplierMangle(s, offset)

-----------------------------------------------------------------------------
(* The schemes' unmangle functions: [raised, value] *)

IdentityUnmangle(s, c) == Returned(c)

BiasedUnmangle(s, c) ==
    IF c > 0 /\ c < s.base THEN Raised ELSE Returned(c - s.base)

EORUnmangle(s, c) == Returned(BitXor(c - 1, s.eor))

ReverseUnmangle(s, c) == Returned(ReverseMangle(s, c))

DescendingUnmangle(s, c) ==
    LET c1   == c - 1
        low  == c1 % s.limit
        high == IntDiv(c1, s.limit) * s.limit
    IN  Returned((s.limit - low) + high)

\* mutant: the residue of the opaque value is not checked
MultiplierUnmangleNoResidueCheck(s, c) ==
    LET c1 == c - s.bias
    IN  IF c1 < 0 THEN Raised ELSE Returned(IntDiv(c1, s.multiplier))

MultiplierUnmangle(s, c) ==
    LET c1 == c - s.bias
    IN  IF c1 < 0 \/ (c1 % s.multiplier) # 0 THEN Raised
        ELSE Returned(IntDiv(c1, s.multiplier))

Unmangle(s, c) ==
    CASE s.cls = "Identity"   -> IdentityUnmangle(s, c)
      [] s.cls = "Biased"     -> BiasedUnmangle(s, c)
      [] s.cls = "EOR"        -> EORUnmangle(s, c)
      [] s.cls = "Reverse"    -> ReverseUnmangle(s, c)
      [] s.cls = "Descending" -> DescendingUnmangle(s, c)
      [] s.cls = "Multiplier" -> MultiplierUnmangle(s, c)

-----------------------------------------------------------------------------
(* SpecPure: mangle and unmangle called directly on an object of each      *)
(* scheme, as the round-trip and involution properties call them.          *)

\* Offsets given to mangle: 0..MaxOffset-1, and samples with bits set above
\* the default number of reversed bits
HighOffsets ==
    { h * Pow2(nbits) + l : h \in 1..MaxHigh,
                            l \in {0, 1, 2, 5, Pow2(nbits - 1), Pow2(nbits) - 1} }

Offsets == (0..(MaxOffset - 1)) \cup HighOffsets

\* Bit counts given to ContextManglerReverse as its argument
BitCounts == {0, 1, 2, 5, 20}

\* Objects with the default tunables, and Reverse objects over BitCounts
PureObjects ==
    { ClassAttrs(c) : c \in Schemes }
        \cup { [ClassAttrs("Reverse") EXCEPT !.nbits = n] : n \in BitCounts }

InitPure ==
    /\ fself \in PureObjects
    /\ fo \in Offsets
    /\ fm = 0
    /\ fu = Returned(0)
    /\ fmm = 0
    /\ fpc = "start"

ApplyMangle ==
    /\ fpc = "start"
    /\ fm' = Mangle(fself, fo)
    /\ fpc' = "mangled"
    /\ UNCHANGED <<fself, fo, fu, fmm>>
    /\ UNCHANGED <<instVars, regVars>>

ApplyUnmangle ==
    /\ fpc = "mangled"
    /\ fu' = Unmangle(fself, fm)
    /\ fpc' = "unmangled"
    /\ UNCHANGED <<fself, fo, fm, fmm>>
    /\ UNCHANGED <<instVars, regVars>>

ApplyMangleAgain ==
    /\ fpc = "mangled"
    /\ fmm' = Mangle(fself, fm)
    /\ fpc' = "remangled"
    /\ UNCHANGED <<fself, fo, fm, fu>>
    /\ UNCHANGED <<instVars, regVars>>

NextPure ==
    \/ ApplyMangle
    \/ ApplyUnmangle
    \/ ApplyMangleAgain

-----------------------------------------------------------------------------
(* The mangler instance                                                    *)

\* mutant: only -1, not the all-ones word, is taken for the terminal sentinel
BaseInitMinusOneOnly(s, c) ==
    IF c = 0 THEN
        [raised |-> FALSE, self |-> [s EXCEPT !.offset = 0], called |-> {}]
    ELSE IF c = -1 THEN
        [raised |-> FALSE, self |-> [s EXCEPT !.offset = -1], called |-> {}]
    ELSE
        LET c1 == IF c < 0 THEN c + Word ELSE c
            u  == Unmangle(s, c1)
        IN  [raised |-> u.raised,
             self   |-> [s EXCEPT !.offset = u.value],
             called |-> {<<"unmangle", c1>>}]

\* ContextManglerBase.__init__: [raised, self, called]
BaseInit(s, c) ==
    IF c = 0 THEN
        [raised |-> FALSE, self |-> [s EXCEPT !.offset = 0], called |-> {}]
    ELSE IF c \in {-1, AllOnes} THEN
        [raised |-> FALSE, self |-> [s EXCEPT !.offset = -1], called |-> {}]
    ELSE
        LET c1 == IF c < 0 THEN c + Word ELSE c
            u  == Unmangle(s, c1)
        IN  [raised |-> u.raised,
             self   |-> [s EXCEPT !.offset = u.value],
             called |-> {<<"unmangle", c1>>}]

\* The subclasses' __init__: the tunables taken from the arguments
BiasedInit(s, a) == IF Len(a) > 0 THEN [s EXCEPT !.base = a[1]] ELSE s

EORInit(s, a) == IF Len(a) > 0 THEN [s EXCEPT !.eor = a[1]] ELSE s

ReverseInit(s, a) == IF Len(a) > 0 THEN [s EXCEPT !.nbits = a[1]] ELSE s

DescendingInit(s, a) == IF Len(a) > 0 THEN [s EXCEPT !.limit = a[1]] ELSE s

MultiplierInit(s, a) ==
    LET s1 == IF Len(a) > 0 THEN [s EXCEPT !.multiplier = a[1]] ELSE s
    IN  IF Len(a) > 1 THEN [s1 EXCEPT !.bias = a[2]] ELSE s1

\* cls(context, *args)
New(cls, c, a) ==
    LET s0 == ClassAttrs(cls)
        s1 == CASE cls = "Identity"   -> s0
                [] cls = "Biased"     -> BiasedInit(s0, a)
                [] cls = "EOR"        -> EORInit(s0, a)
                [] cls = "Reverse"    -> ReverseInit(s0, a)
                [] cls = "Descending" -> DescendingInit(s0, a)
                [] cls = "Multiplier" -> MultiplierInit(s0, a)
    IN  BaseInit(s1, c)

\* mutant: the terminal state is not checked
IAddNoTerminalCheck(s, v) == [s EXCEPT !.offset = @ + v]

\* mutant: the instance moves on by one whatever the value
IAddByOne(s, v) ==
    IF s.offset = -1 THEN s ELSE [s EXCEPT !.offset = @ + 1]

\* ContextManglerBase.__iadd__
IAdd(s, v) ==
    IF s.offset = -1 THEN s ELSE [s EXCEPT !.offset = @ + v]

\* ContextManglerBase.finish
Finish(s) == [s EXCEPT !.offset = -1]

\* ContextManglerBase.opaque: [value, called]
Opaque(s) ==
    IF s.offset \in {0, -1} THEN [value |-> s.offset, called |-> {}]
    ELSE [value |-> Mangle(s, s.offset), called |-> {<<"mangle", s.offset>>}]

-----------------------------------------------------------------------------
(* Spec: one instance is constructed, then advanced, finished and read     *)

\* Opaque values given to the constructor: the sentinels, small values of
\* either sign, and values at and around what the default tunables produce
Contexts ==
    ((-MaxContext)..MaxContext)
        \cup {AllOnes, AllOnes - 1, -8, -24}
        \cup {base - 1, base, base + 2, eor + 1, limit + 1,
              bias, bias + 1, bias + 2 * multiplier}

\* Extra constructor arguments per class: none (the defaults) or positive integers
ArgsOf(cls) ==
    CASE cls = "Identity"   -> {<<>>, <<7>>}
      [] cls = "Biased"     -> {<<>>, <<1>>, <<5>>}
      [] cls = "EOR"        -> {<<>>, <<1>>, <<6>>}
      [] cls = "Reverse"    -> {<<>>, <<1>>, <<3>>}
      [] cls = "Descending" -> {<<>>, <<1>>, <<3>>}
      [] cls = "Multiplier" -> {<<>>, <<1>>, <<3>>, <<3, 2>>, <<1, 5>>}

NoInstance == [made |-> FALSE, raised |-> FALSE, offset |-> 0]

InitInst ==
    /\ pc = "new"
    /\ self = ClassAttrs("Identity")
    /\ context = 0
    /\ args = <<>>
    /\ called = {}
    /\ lastOp = "none"
    /\ value = 0
    /\ prev = 0
    /\ ret = 0
    /\ steps = 0
    /\ byOne = TRUE
    /\ newcontext = NoInstance

\* context = cls(c, *a)
Construct(cls, c, a) ==
    /\ pc = "new"
    /\ LET r == New(cls, c, a)
       IN  /\ pc' = IF r.raised THEN "raised" ELSE "live"
           /\ self' = r.self
           /\ called' = r.called
    /\ context' = c
    /\ args' = a
    /\ lastOp' = "init"
    /\ UNCHANGED <<value, prev, ret, steps, byOne, newcontext>>
    /\ UNCHANGED <<pureVars, regVars>>

\* context += v
Advance(v) ==
    /\ pc = "live"
    /\ steps < MaxSteps
    /\ self' = IAdd(self, v)
    /\ prev' = self.offset
    /\ value' = v
    /\ steps' = steps + 1
    /\ byOne' = (byOne /\ v = 1)
    /\ called' = {}
    /\ lastOp' = "iadd"
    /\ ret' = 0
    /\ newcontext' = NoInstance
    /\ UNCHANGED <<pc, context, args>>
    /\ UNCHANGED <<pureVars, regVars>>

\* context.finish()
DoFinish ==
    /\ pc = "live"
    /\ self' = Finish(self)
    /\ prev' = self.offset
    /\ byOne' = FALSE
    /\ called' = {}
    /\ lastOp' = "finish"
    /\ value' = 0
    /\ ret' = 0
    /\ newcontext' = NoInstance
    /\ UNCHANGED <<pc, context, args, steps>>
    /\ UNCHANGED <<pureVars, regVars>>

\* context.opaque
ReadOpaque ==
    /\ pc = "live"
    /\ LET r == Opaque(self)
       IN  /\ ret' = r.value
           /\ called' = r.called
    /\ prev' = self.offset
    /\ lastOp' = "opaque"
    /\ value' = 0
    /\ newcontext' = NoInstance
    /\ UNCHANGED <<pc, self, context, args, steps, byOne>>
    /\ UNCHANGED <<pureVars, regVars>>

\* newcontext = mangler(context.opaque), with the arguments context was built with
Fresh ==
    /\ pc = "live"
    /\ LET o == Opaque(self)
           r == New(self.cls, o.value, args)
       IN  /\ newcontext' = [made |-> TRUE, raised |-> r.raised, offset |-> r.self.offset]
           /\ ret' = o.value
           /\ called' = o.called \cup r.called
    /\ prev' = self.offset
    /\ lastOp' = "fresh"
    /\ value' = 0
    /\ UNCHANGED <<pc, self, context, args, steps, byOne>>
    /\ UNCHANGED <<pureVars, regVars>>

Next ==
    \/ \E cls \in Schemes : \E c \in Contexts : \E a \in ArgsOf(cls) : Construct(cls, c, a)
    \/ \E v \in 0..MaxDelta : Advance(v)
    \/ DoFinish
    \/ ReadOpaque
    \/ Fresh

-----------------------------------------------------------------------------
(* The registry.  A Python string is the sequence of its character codes.  *)

\* str.lower() on ASCII
LowerChar(ch) == IF ch >= 65 /\ ch <= 90 THEN ch + 32 ELSE ch

Lower(str) == [i \in 1..Len(str) |-> LowerChar(str[i])]

\* str[:n] and str[n:]
Take(str, n) == SubSeq(str, 1, IF Len(str) < n THEN Len(str) ELSE n)

Drop(str, n) == SubSeq(str, n + 1, Len(str))

\* a < b on Python strings
RECURSIVE StrLess(_, _)
StrLess(a, b) ==
    IF b = <<>> THEN FALSE
    ELSE IF a = <<>> THEN TRUE
    ELSE IF a[1] # b[1] THEN a[1] < b[1]
    ELSE StrLess(Tail(a), Tail(b))

\* 'ContextMangler'
Prefix == <<67, 111, 110, 116, 101, 120, 116, 77, 97, 110, 103, 108, 101, 114>>

\* The decorated classes in the order the module defines them
ClassOrder == <<"Identity", "Biased", "EOR", "Reverse", "Descending", "Multiplier">>

\* cls.__name__
PyName(cls) ==
    CASE
         cls = "Identity" -> <<67, 111, 110, 116, 101, 120, 116, 77, 97, 110, 103, 108, 101, 114, 73, 100, 101, 110, 116, 105, 116, 121>>
      [] cls = "Biased" -> <<67, 111, 110, 116, 101, 120, 116, 77, 97, 110, 103, 108, 101, 114, 66, 105, 97, 115, 101, 100>>
      [] cls = "EOR" -> <<67, 111, 110, 116, 101, 120, 116, 77, 97, 110, 103, 108, 101, 114, 69, 79, 82>>
      [] cls = "Reverse" -> <<67, 111, 110, 116, 101, 120, 116, 77, 97, 110, 103, 108, 101, 114, 82, 101, 118, 101, 114, 115, 101>>
      [] cls = "Descending" -> <<67, 111, 110, 116, 101, 120, 116, 77, 97, 110, 103, 108, 101, 114, 68, 101, 115, 99, 101, 110, 100, 105, 110, 103>>
      [] cls = "Multiplier" -> <<67, 111, 110, 116, 101, 120, 116, 77, 97, 110, 103, 108, 101, 114, 77, 117, 108, 116, 105, 112, 108, 105, 101, 114>>

\* manglers.get(key, None): [present, cls]
RECURSIVE Get(_, _)
Get(dict, key) ==
    IF dict = <<>> THEN [present |-> FALSE, cls |-> ""]
    ELSE IF dict[1].key = key THEN [present |-> TRUE, cls |-> dict[1].cls]
    ELSE Get(Tail(dict), key)

\* manglers[key] = cls: a key already present keeps its place
Put(dict, key, cls) ==
    IF Get(dict, key).present
    THEN [i \in 1..Len(dict) |->
            IF dict[i].key = key THEN [key |-> key, cls |-> cls] ELSE dict[i]]
    ELSE Append(dict, [key |-> key, cls |-> cls])

\* mutant: the key keeps the case of the class name
RegisteredKeyCaseKept(nameAttr, pyName) ==
    LET name == IF nameAttr = <<>> THEN pyName ELSE nameAttr
    IN  IF nameAttr = <<>> /\ Take(name, 14) = Prefix
        THEN Drop(name, 14)
        ELSE name

\* The key register_context_mangler stores a class under
RegisteredKey(nameAttr, pyName) ==
    LET name == IF nameAttr = <<>> THEN pyName ELSE nameAttr
    IN  IF nameAttr = <<>> /\ Take(name, 14) = Prefix
        THEN Lower(Drop(name, 14))
        ELSE Lower(name)

\* find_context_mangler(name): [raised, cls]
FindContextMangler(dict, name) ==
    LET m == Get(dict, Lower(name))
    IN  [raised |-> ~m.present, cls |-> m.cls]

\* ContextManglerName(value): [raised, value]
ContextManglerName(dict, val) ==
    IF \E i \in 1..Len(dict) : dict[i].key = val
    THEN [raised |-> FALSE, value |-> val]
    ELSE [raised |-> TRUE, value |-> <<>>]

\* sorted(classes, key=name): a stable sort
RECURSIVE SortedByName(_, _)
SortedByName(classes, nameOf) ==
    IF classes = <<>> THEN <<>>
    ELSE LET n    == Len(classes)
             x    == classes[n]
             rest == SortedByName(SubSeq(classes, 1, n - 1), nameOf)
             \* x goes after every element whose name is not greater than its own
             k    == Cardinality({i \in 1..Len(rest) : ~StrLess(nameOf[x], nameOf[rest[i]])})
         IN  SubSeq(rest, 1, k) \o <<x>> \o SubSeq(rest, k + 1, Len(rest))

\* list_context_manglers()
ListContextManglers(dict, nameOf) ==
    SortedByName([i \in 1..Len(dict) |-> dict[i].cls], nameOf)

-----------------------------------------------------------------------------
(* SpecRegistry: the module is imported (each decorated class definition   *)
(* registers its class), then callers look names up.                       *)

\* Names the callers ask for
QueryNames ==
    {
      <<105, 100, 101, 110, 116, 105, 116, 121>>,  \* 'identity'
      <<73, 68, 69, 78, 84, 73, 84, 89>>,  \* 'IDENTITY'
      <<98, 105, 97, 115, 101, 100>>,  \* 'biased'
      <<66, 73, 65, 83, 69, 68>>,  \* 'BIASED'
      <<101, 111, 114>>,  \* 'eor'
      <<69, 79, 82>>,  \* 'EOR'
      <<114, 101, 118, 101, 114, 115, 101>>,  \* 'reverse'
      <<82, 69, 86, 69, 82, 83, 69>>,  \* 'REVERSE'
      <<100, 101, 115, 99, 101, 110, 100, 105, 110, 103>>,  \* 'descending'
      <<68, 69, 83, 67, 69, 78, 68, 73, 78, 71>>,  \* 'DESCENDING'
      <<109, 117, 108, 116, 105, 112, 108, 105, 101, 114>>,  \* 'multiplier'
      <<77, 85, 76, 84, 73, 80, 76, 73, 69, 82>>,  \* 'MULTIPLIER'
      <<73, 100, 101, 110, 116, 105, 116, 121>>,  \* 'Identity'
      <<69, 79, 82>>,  \* 'EOR'
      <<82, 101, 118, 101, 114, 115, 101>>,  \* 'Reverse'
      <<105, 68, 101, 78, 116, 73, 116, 89>>,  \* 'iDeNtItY'
      <<110, 111, 112, 101>>,  \* 'nope'
      <<78, 79, 80, 69>>,  \* 'NOPE'
      <<>>,  \* ''
      <<67, 111, 110, 116, 101, 120, 116, 77, 97, 110, 103, 108, 101, 114, 73, 100, 101, 110, 116, 105, 116, 121>>,  \* 'ContextManglerIdentity'
      <<99, 111, 110, 116, 101, 120, 116, 109, 97, 110, 103, 108, 101, 114, 101, 111, 114>>,  \* 'contextmanglereor'
      <<105, 100, 101, 110, 116, 105, 116, 121, 32>>,  \* 'identity '
      <<109, 97, 110, 103, 108, 101, 114>>   \* 'mangler'
    }

NotAsked == [asked |-> FALSE, name |-> <<>>, raised |-> FALSE, cls |-> "", value |-> <<>>]

InitRegistry ==
    /\ manglers = <<>>
    /\ clsname = [c \in Schemes |-> <<>>]
    /\ defined = 0
    /\ found = NotAsked
    /\ validated = NotAsked
    /\ listed = [asked |-> FALSE, list |-> <<>>]

\* @register_context_mangler on the next class definition of the module
Register ==
    /\ defined < Len(ClassOrder)
    /\ LET m == ClassOrder[defined + 1]
       IN  /\ manglers' = Put(manglers, RegisteredKey(clsname[m], PyName(m)), m)
           /\ clsname' = IF clsname[m] = <<>>
                         THEN [clsname EXCEPT ![m] = PyName(m)]
                         ELSE clsname
    /\ defined' = defined + 1
    /\ UNCHANGED <<found, validated, listed>>
    /\ UNCHANGED <<pureVars, instVars>>

\* find_context_mangler(name), once the module is imported
Find(name) ==
    /\ defined = Len(ClassOrder)
    /\ LET r == FindContextMangler(manglers, name)
       IN  found' = [NotAsked EXCEPT !.asked = TRUE, !.name = name,
                                     !.raised = r.raised, !.cls = r.cls]
    /\ UNCHANGED <<manglers, clsname, defined, validated, listed>>
    /\ UNCHANGED <<pureVars, instVars>>

\* ContextManglerName(value), once the module is imported
Validate(name) ==
    /\ defined = Len(ClassOrder)
    /\ LET r == ContextManglerName(manglers, name)
       IN  validated' = [NotAsked EXCEPT !.asked = TRUE, !.name = name,
                                         !.raised = r.raised, !.value = r.value]
    /\ UNCHANGED <<manglers, clsname, defined, found, listed>>
    /\ UNCHANGED <<pureVars, instVars>>

\* list_context_manglers(), once the module is imported
List ==
    /\ defined = Len(ClassOrder)
    /\ listed' = [asked |-> TRUE, list |-> ListContextManglers(manglers, clsname)]
    /\ UNCHANGED <<manglers, clsname, defined, found, validated>>
    /\ UNCHANGED <<pureVars, instVars>>

NextRegistry ==
    \/ Register
    \/ \E name \in QueryNames : Find(name)
    \/ \E name \in QueryNames : Validate(name)
    \/ List

-----------------------------------------------------------------------------
(* The specifications: each runs its own part and leaves the others alone  *)

\* The parts a specification does not run stay as they start
PureIdle ==
    /\ fself = ClassAttrs("Identity")
    /\ fo = 0
    /\ fm = 0
    /\ fu = Returned(0)
    /\ fmm = 0
    /\ fpc = "start"

Init == InitInst /\ PureIdle /\ InitRegistry

Spec == Init /\ [][Next]_vars

InitP == InitPure /\ InitInst /\ InitRegistry

SpecPure == InitP /\ [][NextPure]_vars

InitR == InitRegistry /\ InitInst /\ PureIdle

SpecRegistry == InitR /\ [][NextRegistry]_vars

-----------------------------------------------------------------------------
(* Properties of the pure functions (SpecPure)                             *)

DefaultObject(s) == s = ClassAttrs(s.cls)

\* C1: round trip.  For every scheme with its default parameters and every
\* offset o in [0, MaxOffset), unmangle(mangle(o)) returns o.
C1_RoundTrip ==
    (fpc = "unmangled" /\ DefaultObject(fself) /\ fo < MaxOffset)
        => (~fu.raised /\ fu.value = fo)

\* What the code does instead: with the default parameters the round trip
\* holds at every sampled offset that is not a multiple of Descending's limit
\* (0 is the only multiple below MaxOffset), and at those it returns
\* offset + 2 * limit.
RoundTripButDescendingMultiples ==
    (fpc = "unmangled" /\ DefaultObject(fself))
        => /\ ~fu.raised
           /\ IF fself.cls = "Descending" /\ fo % fself.limit = 0
              THEN fu.value = fo + 2 * fself.limit
              ELSE fu.value = fo

\* C7: BitReverse involution.  For Reverse with the default 17 bits and with
\* any other bit count, mangle(mangle(o)) = o for every offset o, and the
\* bits of o above the reversed ones are the same in mangle(o).
C7_ReverseInvolution ==
    (fself.cls = "Reverse")
        => /\ (fpc = "remangled" => fmm = fo)
           /\ (fpc # "start" => fm \div Pow2(fself.nbits) = fo \div Pow2(fself.nbits))

\* C7 witness: an offset with bits above bit 17 was mangled twice by the
\* default scheme, and the first mangle moved it
C7_Witness ==
    /\ fpc = "remangled"
    /\ fself.cls = "Reverse"
    /\ fself.nbits = nbits
    /\ fo >= Pow2(nbits)
    /\ fm # fo
    /\ fmm = fo

-----------------------------------------------------------------------------
(* Properties of the instance (Spec)                                       *)

\* The instance is as its constructor left it
Pristine == steps = 0 /\ byOne

\* The opaque value as unmangle receives it
Normalised(c) == IF c < 0 THEN c + Word ELSE c

\* C2: sentinel invariance.  Whatever the scheme and its parameters, an
\* instance built from opaque 0 has offset 0 and reads back opaque 0, one
\* built from -1 or from the all-ones word has offset -1 and reads back -1,
\* and neither the construction nor the read calls mangle or unmangle.
C2_SentinelInvariance ==
    /\ (lastOp = "init" /\ context = 0)
          => (pc = "live" /\ self.offset = 0 /\ called = {}
              /\ Opaque(self) = [value |-> 0, called |-> {}])
    /\ (lastOp = "init" /\ context \in {-1, AllOnes})
          => (pc = "live" /\ self.offset = -1 /\ called = {}
              /\ Opaque(self) = [value |-> -1, called |-> {}])
    /\ (lastOp = "opaque" /\ Pristine /\ context = 0)
          => (ret = 0 /\ called = {})
    /\ (lastOp = "opaque" /\ Pristine /\ context \in {-1, AllOnes})
          => (ret = -1 /\ called = {})

\* C2 witness: a Multiplier with both parameters overridden was built from
\* the all-ones word and its opaque value was read back
C2_Witness ==
    /\ lastOp = "opaque"
    /\ Pristine
    /\ context = AllOnes
    /\ self.cls = "Multiplier"
    /\ Len(args) = 2
    /\ self.offset = -1
    /\ ret = -1

\* C3: advance consistency.  An instance built from opaque 0 and advanced by
\* 1 k times has offset k, and a fresh instance of the same scheme and
\* parameters built from its opaque value has offset k too.
C3_AdvanceConsistency ==
    (pc = "live" /\ context = 0 /\ byOne)
        => /\ self.offset = steps
           /\ (lastOp = "fresh" => (~newcontext.raised /\ newcontext.offset = steps))

\* What the test checks: the same with the default parameters only
AdvanceConsistencyDefaults ==
    (pc = "live" /\ context = 0 /\ byOne /\ args = <<>>)
        => /\ self.offset = steps
           /\ (lastOp = "fresh" => (~newcontext.raised /\ newcontext.offset = steps))

\* A live instance holds an offset >= 0 or the terminal marker
OffsetInRange == pc = "live" => self.offset >= -1

\* C4: terminal absorption.  Once the instance is terminal (offset -1), by
\* construction from a sentinel or by finish(), every later step leaves its
\* offset at -1 and its opaque value at -1.
C4_TerminalAbsorption ==
    [][(pc = "live" /\ self.offset = -1)
          => (pc' = "live" /\ self'.offset = -1 /\ Opaque(self').value = -1)]_vars

\* C4 witness: an instance that was running was finished, and then advanced
\* by a positive value
C4_Witness ==
    /\ lastOp = "iadd"
    /\ prev = -1
    /\ value > 0
    /\ context \notin {0, -1, AllOnes}
    /\ steps >= 2
    /\ self.offset = -1

RECURSIVE AdvanceByOnes(_, _)
AdvanceByOnes(s, n) == IF n = 0 THEN s ELSE AdvanceByOnes(IAdd(s, 1), n - 1)

\* C8: advance by N.  One += N leaves the instance with the offset and the
\* opaque value that N successive += 1 leave, += a then += b leaves what
\* += (a + b) leaves, and on a terminal instance all of them change nothing.
C8_AdvanceByN ==
    (lastOp = "iadd")
        => LET before == [self EXCEPT !.offset = prev]
               ones   == AdvanceByOnes(before, value)
           IN  /\ self = ones
               /\ Opaque(self).value = Opaque(ones).value
               /\ (prev = -1 => self.offset = -1)
               /\ \A a, b \in 0..MaxDelta :
                     IAdd(IAdd(before, a), b) = IAdd(before, a + b)

\* C8 witness: a running instance was advanced by more than 1
C8_Witness ==
    /\ lastOp = "iadd"
    /\ value > 1
    /\ prev > 0
    /\ self.offset = prev + value

\* The tunable of the scheme is small enough for every offset that could
\* mangle to an opaque value below 2^SmallBits to lie below 2^(SmallBits + 1):
\* such an offset is at most c (Identity, Biased, Multiplier), below
\* 2^SmallBits (EOR, Reverse) or below c + limit (Descending)
SmallTunables(s) ==
    CASE s.cls = "EOR"        -> s.eor < Pow2(SmallBits)
      [] s.cls = "Reverse"    -> s.nbits <= SmallBits
      [] s.cls = "Descending" -> s.limit < Pow2(SmallBits)
      [] OTHER                -> TRUE

\* Some offset o >= 0 mangles to c (for small c and small tunables)
Producible(s, c) == \E o \in 0..Pow2(SmallBits + 1) : Mangle(s, o) = c

\* C9: unproducible opaque values are rejected.  Construction from a
\* non-sentinel opaque value that is mangle(o) for no offset o >= 0 fails.
C9_UnproducibleRejected ==
    (/\ lastOp = "init"
     /\ context \notin {0, -1, AllOnes}
     /\ Normalised(context) < Pow2(SmallBits)
     /\ SmallTunables(self)
     /\ ~Producible(self, Normalised(context)))
        => pc = "raised"

\* What the code does instead: every scheme but Descending rejects the small
\* opaque values no offset produces
UnproducibleRejectedButDescending ==
    (/\ lastOp = "init"
     /\ self.cls # "Descending"
     /\ context \notin {0, -1, AllOnes}
     /\ Normalised(context) < Pow2(SmallBits)
     /\ SmallTunables(self)
     /\ ~Producible(self, Normalised(context)))
        => pc = "raised"

-----------------------------------------------------------------------------
(* Properties of the registry (SpecRegistry)                               *)

\* The six built-in names, in ascending order
BuiltinNames ==
    <<<<98, 105, 97, 115, 101, 100>>,
      <<100, 101, 115, 99, 101, 110, 100, 105, 110, 103>>,
      <<101, 111, 114>>,
      <<105, 100, 101, 110, 116, 105, 116, 121>>,
      <<109, 117, 108, 116, 105, 112, 108, 105, 101, 114>>,
      <<114, 101, 118, 101, 114, 115, 101>>>>

BuiltinKeys == {BuiltinNames[i] : i \in 1..Len(BuiltinNames)}

\* C6: registry lookup.  After the six registrations, find(name) returns the
\* class of that name whatever the case of its letters, fails for any other
\* name, and list() returns the six classes in ascending order of name.
C6_RegistryLookup ==
    /\ found.asked =>
          /\ found.raised <=> (Lower(found.name) \notin BuiltinKeys)
          /\ ~found.raised => Lower(Drop(PyName(found.cls), 14)) = Lower(found.name)
    /\ listed.asked =>
          /\ Len(listed.list) = Len(BuiltinNames)
          /\ \A i \in 1..Len(listed.list) :
                Lower(Drop(PyName(listed.list[i]), 14)) = BuiltinNames[i]
          /\ \A i, j \in 1..Len(listed.list) :
                i < j => StrLess(clsname[listed.list[i]], clsname[listed.list[j]])

\* C6 witness: 'IDENTITY' was found as the Identity class and the list was taken
C6_Witness ==
    /\ found.asked
    /\ found.name = <<73, 68, 69, 78, 84, 73, 84, 89>>
    /\ ~found.raised
    /\ found.cls = "Identity"
    /\ listed.asked
    /\ Len(listed.list) = 6

\* C10: name validation agrees with lookup.  ContextManglerName(v) returns v
\* exactly when find(v) succeeds, and fails otherwise.
C10_ValidateAgreesWithFind ==
    (found.asked /\ validated.asked /\ found.name = validated.name)
        => /\ found.raised <=> validated.raised
           /\ ~validated.raised => validated.value = validated.name

\* What the code does instead: validation succeeds exactly for the names
\* that are stored keys, that is, for the lower-case spellings
ValidateAcceptsKeysOnly ==
    validated.asked =>
        /\ validated.raised <=> (validated.name \notin BuiltinKeys)
        /\ ~validated.raised => validated.value = validated.name

=============================================================================
